---- MODULE Spec2Model ----
(***************************************************************************)
(* mpf: the process picker for MongoDB development.                        *)
(*                                                                         *)
(* Text is a sequence of one-character strings.  Option<T> is a sequence   *)
(* of length at most one: None is << >> and Some(v) is << v >>.            *)
(***************************************************************************)
EXTENDS Integers, Sequences, FiniteSets

VARIABLES
    \* ---- get_cmd_line_option / get_mongod_info applied to one command line
    option,          \* the flag looked up
    options,         \* the command line
    opt_result,      \* Option<String> returned by get_cmd_line_option
    info,            \* Option: the MongoDServerInfo get_mongod_info returns, None on panic
    opt_pc,
    \* ---- get_path_info applied to one argument block
    launch,          \* Option: what a well-formed block was built from
    sys,             \* what sysctl(KERN_PROCARGS2) left: ret, buf, size
    path_info,       \* what get_path_info returned
    args_pc,
    \* ---- one invocation of the program (main)
    platform,        \* "linux" or "macos": the get_procs compiled in
    args,            \* Args: process_type, server_type, port, verbose
    os,              \* the operating system: list_ok and the process table
    pc,              \* where main is
    procs,           \* Vec<CommonProcInfo> returned by get_procs
    idx,             \* index of the next element of procs to classify
    shells,
    mongod_servers,
    mongos_servers,
    pids,
    has_pids,
    stdout,          \* lines printed: <<"diag", _>>, <<"pid", _>>, <<"summary", _>>
    stderr,
    exit_code        \* Option<i32>: the status the process ended with

optVars == <<option, options, opt_result, info, opt_pc>>
argsVars == <<launch, sys, path_info, args_pc>>
mainVars == <<platform, args, os, pc, procs, idx, shells, mongod_servers,
              mongos_servers, pids, has_pids, stdout, stderr, exit_code>>
vars == <<optVars, argsVars, mainVars>>

(***************************************************************************)
(* Bounds of the model.                                                    *)
(***************************************************************************)
MaxOpts == 3        \* longest command line drawn for the option lookup
MaxArgc == 2        \* most arguments of a well-formed argument block
MaxEnv == 2         \* most environment strings of a well-formed block
MaxPadding == 2     \* longest run of padding behind the executable path
RawLen == 6         \* length of the buffers filled with arbitrary bytes
MaxProcs == 2       \* most processes in the table of the operating system

(***************************************************************************)
(* Text helpers: str::starts_with and str::split(char).                    *)
(***************************************************************************)
None == << >>
Some(v) == << v >>
IsSome(o) == Len(o) = 1
Unwrap(o) == o[1]

Least(S) == CHOOSE i \in S : \A j \in S : i <= j

StartsWith(s, p) == Len(s) >= Len(p) /\ SubSeq(s, 1, Len(p)) = p

RECURSIVE Split(_, _)
Split(s, c) ==
    IF \A i \in 1..Len(s) : s[i] # c
    THEN << s >>
    ELSE LET i == CHOOSE k \in 1..Len(s) :
                      s[k] = c /\ \A j \in 1..(k - 1) : s[j] # c
         IN  << SubSeq(s, 1, i - 1) >> \o Split(SubSeq(s, i + 1, Len(s)), c)

\* str::parse::<i32>: an optional sign, then one or more decimal digits, the
\* value within the range of i32.
Digits == <<"0", "1", "2", "3", "4", "5", "6", "7", "8", "9">>
IsDigit(c) == \E d \in 1..10 : Digits[d] = c
DigitVal(c) == (CHOOSE d \in 1..10 : Digits[d] = c) - 1

I32Max == 2147483647

\* The digits accumulated left to right as core::num does: None on overflow.
RECURSIVE Accum(_, _, _)
Accum(s, acc, negative) ==
    IF s = << >> THEN Some(acc)
    ELSE LET d == DigitVal(Head(s))
             n == IF negative THEN 0 - acc ELSE acc
             limit == IF negative
                      THEN (IF d = 0 THEN I32Max \div 10 ELSE (I32Max - d + 1) \div 10)
                      ELSE (I32Max - d) \div 10
         IN  IF n > limit THEN None
             ELSE Accum(Tail(s), IF negative THEN acc * 10 - d ELSE acc * 10 + d, negative)

ParseI32(s) ==
    LET signed == s # << >> /\ s[1] \in {"+", "-"}
        body   == IF signed THEN Tail(s) ELSE s
    IN  IF body # << >> /\ (\A i \in 1..Len(body) : IsDigit(body[i]))
        THEN Accum(body, 0, signed /\ s[1] = "-")
        ELSE None

(***************************************************************************)
(* The text the program and the drawn command lines are made of.           *)
(***************************************************************************)
s_mongo  == <<"m", "o", "n", "g", "o">>
s_mongod == <<"m", "o", "n", "g", "o", "d">>
s_mongos == <<"m", "o", "n", "g", "o", "s">>
s_port      == <<"-", "-", "p", "o", "r", "t">>
s_shardsvr  == <<"-", "-", "s", "h", "a", "r", "d", "s", "v", "r">>
s_configsvr == <<"-", "-", "c", "o", "n", "f", "i", "g", "s", "v", "r">>
s_replSet   == <<"-", "-", "r", "e", "p", "l", "S", "e", "t">>
s_rs  == <<"r", "s">>
s_one == <<"1">>

\* MongoDType
Standalone == "Standalone"
ReplicaSet == "ReplicaSet"
Config     == "Config"
Shard      == "Shard"
MongoDType == {Standalone, ReplicaSet, Config, Shard}

\* MongoProcess
Legacyshell == "Legacyshell"
Mongod      == "Mongod"
Mongos      == "Mongos"
MongoProcess == {Legacyshell, Mongod, Mongos}

(***************************************************************************)
(* get_cmd_line_option                                                     *)
(***************************************************************************)
\* A faulty EqFormMatches: the part before '=' is not compared with the
\* flag, so that any token beginning with the flag and holding one '=' matches.
EqFormMatchesPrefixOnly(opt, flag) ==
    StartsWith(opt, flag) /\ Len(Split(opt, "=")) = 2

\* opt.starts_with(option), then splits.len() == 2 && splits[0] == option
EqFormMatches(opt, flag) ==
    /\ StartsWith(opt, flag)
    /\ LET splits == Split(opt, "=")
       IN  Len(splits) = 2 /\ splits[1] = flag

RECURSIVE OptScan(_, _, _)
OptScan(flag, opts, i) ==
    IF i > Len(opts) THEN None
    ELSE LET opt == opts[i]
         IN  IF opt = flag
             THEN IF i + 1 <= Len(opts) THEN Some(opts[i + 1]) ELSE None
             ELSE IF EqFormMatches(opt, flag)
                  THEN Some(Split(opt, "=")[2])
                  ELSE OptScan(flag, opts, i + 1)

get_cmd_line_option(flag, opts) == OptScan(flag, opts, 1)

(***************************************************************************)
(* is_mongo_process, get_mongod_info, get_mongos_info                      *)
(***************************************************************************)
DefaultPort == 20017

\* Some(role), or None; warned says whether the "Unexpected mongo like
\* process" line goes to stderr.
is_mongo_process(proc) ==
    IF ~StartsWith(proc.program, s_mongo) THEN [role |-> None, warned |-> FALSE]
    ELSE IF proc.program = s_mongod THEN [role |-> Some(Mongod), warned |-> FALSE]
    ELSE IF proc.program = s_mongos THEN [role |-> Some(Mongos), warned |-> FALSE]
    ELSE IF proc.program = s_mongo THEN [role |-> Some(Legacyshell), warned |-> FALSE]
    ELSE [role |-> None, warned |-> TRUE]

\* port_str.map_or(20017, |s| s.parse::<i32>().expect("Bad port number")):
\* Some(port), or None when expect panics.
ResolvePort(cmdline) ==
    LET port_str == get_cmd_line_option(s_port, cmdline)
    IN  IF IsSome(port_str) THEN ParseI32(Unwrap(port_str)) ELSE Some(DefaultPort)

ServerTypeOf(configsvr, shardsvr, repl_set) ==
    IF IsSome(configsvr) THEN Config
    ELSE IF IsSome(shardsvr) THEN Shard
    ELSE IF IsSome(repl_set) THEN ReplicaSet
    ELSE Standalone

\* A faulty ReplicaSetNameOf: the name is kept only in a ReplicaSet record.
ReplicaSetNameOfTyped(server_type, repl_set) ==
    IF server_type = ReplicaSet THEN repl_set ELSE None

\* replica_set_name: repl_set
ReplicaSetNameOf(server_type, repl_set) == repl_set

\* Some(record built), or None when expect("Bad port number") panics.
get_mongod_info(proc) ==
    LET cmdline   == proc.cmdline
        port      == ResolvePort(cmdline)
        shardsvr  == get_cmd_line_option(s_shardsvr, cmdline)
        configsvr == get_cmd_line_option(s_configsvr, cmdline)
        repl_set  == get_cmd_line_option(s_replSet, cmdline)
        server_type == ServerTypeOf(configsvr, shardsvr, repl_set)
    IN  IF ~IsSome(port) THEN None
        ELSE Some([pid |-> proc.pid,
                   port |-> Unwrap(port),
                   server_type |-> server_type,
                   replica_set_name |-> ReplicaSetNameOf(server_type, repl_set)])

get_mongos_info(proc) ==
    LET port == ResolvePort(proc.cmdline)
    IN  IF ~IsSome(port) THEN None
        ELSE Some([pid |-> proc.pid, port |-> Unwrap(port)])

(***************************************************************************)
(* macos.rs: the argument block of KERN_PROCARGS2 and get_path_info.       *)
(*                                                                         *)
(* A byte is a string: a printable byte is its character, and the bytes    *)
(* 0, 1, 2, 3 and 255 are written "^@", "^A", "^B", "^C" and "M-^?".       *)
(* Offsets into the block count from 0, as the pointers of the code do.    *)
(***************************************************************************)
NUL == "^@"

ByteVal(b) ==
    CASE b = "^@" -> 0   [] b = "^A" -> 1   [] b = "^B" -> 2   [] b = "^C" -> 3
      [] b = "M-^?" -> 255
      [] b = "-" -> 45   [] b = "." -> 46   [] b = "/" -> 47   [] b = "1" -> 49
      [] b = "=" -> 61   [] b = "A" -> 65   [] b = "H" -> 72   [] b = "P" -> 80
      [] b = "S" -> 83   [] b = "T" -> 84   [] b = "a" -> 97   [] b = "b" -> 98
      [] b = "c" -> 99   [] b = "d" -> 100  [] b = "e" -> 101  [] b = "f" -> 102
      [] b = "g" -> 103  [] b = "h" -> 104  [] b = "i" -> 105  [] b = "l" -> 108
      [] b = "m" -> 109  [] b = "n" -> 110  [] b = "o" -> 111  [] b = "p" -> 112
      [] b = "r" -> 114  [] b = "s" -> 115  [] b = "t" -> 116  [] b = "v" -> 118
      [] b = "x" -> 120

At(buf, o) == buf[o + 1]

\* memcpy of size_of::<c_int>() bytes into n_args: a little-endian i32.
NArgs(buf) ==
    LET b3 == ByteVal(At(buf, 3))
        hi == IF b3 >= 128 THEN b3 - 256 ELSE b3
    IN  ByteVal(At(buf, 0)) + 256 * ByteVal(At(buf, 1))
        + 65536 * ByteVal(At(buf, 2)) + 16777216 * hi

\* get_unchecked_str(cp, start): the bytes of [start, cp) as text.
get_unchecked_str(buf, cp, start) == SubSeq(buf, start + 1, cp)

\* while cp < ptr.add(size) && *cp != 0 { cp = cp.offset(1) }
RECURSIVE ScanExe(_, _, _)
ScanExe(buf, size, cp) ==
    IF cp < size /\ At(buf, cp) # NUL THEN ScanExe(buf, size, cp + 1) ELSE cp

\* while cp < ptr.add(size) && *cp == 0 { cp = cp.offset(1) }
RECURSIVE SkipPadding(_, _, _)
SkipPadding(buf, size, cp) ==
    IF cp < size /\ At(buf, cp) = NUL THEN SkipPadding(buf, size, cp + 1) ELSE cp

\* The offsets a scan from `from` that stopped at `to` dereferenced.
ScanReads(size, from, to) == { o \in from..to : o < size }

\* while c < n_args && cp < ptr.add(size) { ... }
RECURSIVE CmdLoop(_, _, _, _)
CmdLoop(buf, size, n_args, st) ==
    IF st.c < n_args /\ st.cp < size
    THEN IF At(buf, st.cp) = NUL
         THEN CmdLoop(buf, size, n_args,
                  [c |-> st.c + 1, cp |-> st.cp + 1, start |-> st.cp + 1,
                   cmd |-> Append(st.cmd, get_unchecked_str(buf, st.cp, st.start)),
                   ranges |-> st.ranges \cup {<<st.start, st.cp>>},
                   reads |-> st.reads \cup {st.cp}])
         ELSE CmdLoop(buf, size, n_args,
                  [st EXCEPT !.cp = st.cp + 1, !.reads = st.reads \cup {st.cp}])
    ELSE st

\* while cp < ptr.add(size) { if *cp == 0 { if cp == start { break } ... } ... }
RECURSIVE EnvLoop(_, _, _)
EnvLoop(buf, size, st) ==
    IF st.cp < size
    THEN IF At(buf, st.cp) = NUL
         THEN IF st.cp = st.start
              THEN [st EXCEPT !.reads = st.reads \cup {st.cp}]
              ELSE EnvLoop(buf, size,
                       [cp |-> st.cp + 1, start |-> st.cp + 1,
                        env |-> Append(st.env, get_unchecked_str(buf, st.cp, st.start)),
                        ranges |-> st.ranges \cup {<<st.start, st.cp>>},
                        reads |-> st.reads \cup {st.cp}])
         ELSE EnvLoop(buf, size,
                  [st EXCEPT !.cp = st.cp + 1, !.reads = st.reads \cup {st.cp}])
    ELSE st

(***************************************************************************)
(* std::path as get_path_info uses it.  A path is kept as its components:  *)
(* repeated and trailing separators and inner "." components are dropped.  *)
(***************************************************************************)
IsNormalSeg(seg) == seg # << >> /\ seg # <<".">>

is_absolute(p) == p # << >> /\ p[1] = "/"

Components(p) ==
    LET segs == Split(p, "/")
    IN  IF segs[1] = <<".">>
        THEN << <<".">> >> \o SelectSeq(Tail(segs), IsNormalSeg)
        ELSE SelectSeq(segs, IsNormalSeg)

\* Path::file_name: None when the path is empty, the root, or ends in "..".
file_name(p) ==
    LET comps == Components(p)
    IN  IF comps = << >> THEN None
        ELSE LET last == comps[Len(comps)]
             IN  IF last = <<".", ".">> \/ last = <<".">> THEN None ELSE Some(last)

RECURSIVE JoinPath(_)
JoinPath(comps) ==
    IF comps = << >> THEN << >>
    ELSE IF Len(comps) = 1 THEN comps[1]
    ELSE comps[1] \o <<"/">> \o JoinPath(Tail(comps))

\* Path::parent: None when the path is empty or the root.
parent(p) ==
    LET comps == Components(p)
    IN  IF comps = << >> THEN None
        ELSE Some((IF is_absolute(p) THEN <<"/">> ELSE << >>)
                  \o JoinPath(SubSeq(comps, 1, Len(comps) - 1)))

s_PATH_EQ == <<"P", "A", "T", "H", "=">>

\* for env in env.iter() { if env.starts_with("PATH=") { root = &env[6..]; break } }
\* Some(root), or None when the slice panics (the string is shorter than 6).
RootFromEnv(env) ==
    LET hits == { i \in 1..Len(env) : StartsWith(env[i], s_PATH_EQ) }
    IN  IF hits = {} THEN Some(<< >>)
        ELSE LET e == env[Least(hits)]
             IN  IF Len(e) < 6 THEN None ELSE Some(SubSeq(e, 7, Len(e)))

NoPathInfo(outcome, reads) ==
    [outcome |-> outcome, name |-> << >>, exe |-> << >>, root |-> << >>,
     cmd |-> << >>, env |-> << >>, reads |-> reads, ranges |-> {}]

\* sc is what sysctl(KERN_PROCARGS2) left: ret, the buffer and the size it
\* reported.  outcome is "none" (None), "some" (Some(PathInfo)) or "panic".
get_path_info(sc) ==
    IF sc.ret = 0 - 1 THEN NoPathInfo("none", {})
    ELSE
    LET buf  == sc.buf
        size == sc.size
        hdr  == 0..3
    IN  IF ~(4 < size) THEN NoPathInfo("none", hdr)
        ELSE
        LET n_args  == NArgs(buf)
            exe_end == ScanExe(buf, size, 4)
            exe     == get_unchecked_str(buf, exe_end, 4)
            fname   == file_name(exe)
            name    == IF IsSome(fname) THEN Unwrap(fname) ELSE << >>
            par     == IF is_absolute(exe) THEN parent(exe) ELSE None
            need_root == ~IsSome(par)
            arg0    == SkipPadding(buf, size, exe_end)
            cl      == CmdLoop(buf, size, n_args,
                           [c |-> 0, cp |-> arg0, start |-> arg0, cmd |-> << >>,
                            ranges |-> {<<4, exe_end>>},
                            reads |-> hdr \cup ScanReads(size, 4, exe_end)
                                         \cup ScanReads(size, exe_end, arg0)])
            el      == EnvLoop(buf, size,
                           [cp |-> cl.cp, start |-> cl.cp, env |-> << >>,
                            ranges |-> cl.ranges, reads |-> cl.reads])
            root    == IF need_root THEN RootFromEnv(el.env) ELSE par
        IN  IF ~IsSome(root) THEN NoPathInfo("panic", el.reads)
            ELSE [outcome |-> "some", name |-> name, exe |-> exe,
                  root |-> Unwrap(root), cmd |-> cl.cmd, env |-> el.env,
                  reads |-> el.reads, ranges |-> el.ranges]

\* The block the kernel hands out for a process: argc, the executable path,
\* padding, the arguments, the environment strings.
RECURSIVE Terminated(_)
Terminated(strs) ==
    IF strs = << >> THEN << >>
    ELSE strs[1] \o <<NUL>> \o Terminated(Tail(strs))

ArgcBytes(n) == << (CASE n = 0 -> "^@" [] n = 1 -> "^A" [] n = 2 -> "^B" [] n = 3 -> "^C"),
                   NUL, NUL, NUL >>

KernelBlock(exe, padding, argv, env) ==
    ArgcBytes(Len(argv)) \o exe \o <<NUL>> \o [i \in 1..padding |-> NUL]
        \o Terminated(argv) \o Terminated(env)

(***************************************************************************)
(* SpecOpt: the option lookup and get_mongod_info on every command line of *)
(* at most MaxOpts tokens.                                                 *)
(***************************************************************************)
Eq(flag, v) == flag \o <<"=">> \o v

OptTokens ==
    { s_port, Eq(s_port, s_one), Eq(s_port \o <<"s">>, s_one),
      Eq(s_port, Eq(s_one, s_one)), s_one,
      s_configsvr, s_shardsvr, s_replSet, Eq(s_replSet, s_rs), s_rs }

OptFlags == {s_port, s_configsvr, s_shardsvr, s_replSet}

SeqsUpTo(S, n) == UNION { [1..k -> S] : k \in 0..n }

OptIdle ==
    /\ option = << >>
    /\ options = << >>
    /\ opt_result = None
    /\ info = None
    /\ opt_pc = "idle"

ArgsIdle ==
    /\ launch = None
    /\ sys = [ret |-> 0 - 1, buf |-> << >>, size |-> 0]
    /\ path_info = NoPathInfo("none", {})
    /\ args_pc = "idle"

MainIdle ==
    /\ platform = "linux"
    /\ args = [process_type |-> None, server_type |-> None, port |-> None,
               verbose |-> FALSE]
    /\ os = [list_ok |-> TRUE, table |-> << >>]
    /\ pc = "idle"
    /\ procs = << >>
    /\ idx = 1
    /\ shells = << >>
    /\ mongod_servers = << >>
    /\ mongos_servers = << >>
    /\ pids = << >>
    /\ has_pids = TRUE
    /\ stdout = << >>
    /\ stderr = << >>
    /\ exit_code = None

OptInit ==
    /\ ArgsIdle
    /\ MainIdle
    /\ option \in OptFlags
    /\ options \in SeqsUpTo(OptTokens, MaxOpts)
    /\ opt_result = None
    /\ info = None
    /\ opt_pc = "start"

Lookup ==
    /\ opt_pc = "start"
    /\ opt_result' = get_cmd_line_option(option, options)
    /\ opt_pc' = "looked"
    /\ UNCHANGED <<option, options, info, argsVars, mainVars>>

MongodInfo ==
    /\ opt_pc = "looked"
    /\ info' = get_mongod_info([pid |-> 1, program |-> s_mongod, cmdline |-> options])
    /\ opt_pc' = "classified"
    /\ UNCHANGED <<option, options, opt_result, argsVars, mainVars>>

OptNext == Lookup \/ MongodInfo

SpecOpt == OptInit /\ [][OptNext]_vars

(***************************************************************************)
(* What the claims about the lookup speak of, stated without the scan.     *)
(***************************************************************************)
HasToken(opts, t) == \E i \in 1..Len(opts) : opts[i] = t

\* The token has the form flag=V, for any text V.
IsEqToken(t, flag) == StartsWith(t, flag \o <<"=">>)
AfterFirstEq(t, flag) == SubSeq(t, Len(flag) + 2, Len(t))

\* The positions holding the flag itself or a flag=V token.
MatchIdx(flag, opts) ==
    { i \in 1..Len(opts) : opts[i] = flag \/ IsEqToken(opts[i], flag) }

\* The positions the code takes for a match: the flag itself, or flag=V with
\* no '=' in V.
CodeMatchIdx(flag, opts) ==
    { i \in MatchIdx(flag, opts) :
        opts[i] = flag
        \/ \A k \in 1..Len(AfterFirstEq(opts[i], flag)) : AfterFirstEq(opts[i], flag)[k] # "=" }

ValueAt(flag, opts, i) ==
    IF opts[i] = flag
    THEN IF i < Len(opts) THEN Some(opts[i + 1]) ELSE None
    ELSE Some(AfterFirstEq(opts[i], flag))

\* A replica set is named: --replSet=<name>, or --replSet followed by a token.
NamesReplicaSet(opts) ==
    \E i \in 1..Len(opts) :
        \/ IsEqToken(opts[i], s_replSet)
        \/ opts[i] = s_replSet /\ i < Len(opts)

\* C1: server-type resolution follows config > shard > replica-set >
\* standalone on the presence of the tokens: a command line holding
\* --configsvr (at any position, the last included) together with
\* --replSet=<name> is Config; without --configsvr and with --shardsvr it is
\* Shard; with only a replica set named it is ReplicaSet; with none of the
\* three it is Standalone.
C1_TypePrecedence ==
    (opt_pc = "classified" /\ IsSome(info)) =>
        LET t == Unwrap(info).server_type
            config == HasToken(options, s_configsvr)
            shard  == HasToken(options, s_shardsvr)
        IN  /\ (config /\ \E i \in 1..Len(options) : IsEqToken(options[i], s_replSet))
                   => t = Config
            /\ (~config /\ shard) => t = Shard
            /\ (~config /\ ~shard /\ NamesReplicaSet(options)) => t = ReplicaSet
            /\ (~config /\ ~shard /\ MatchIdx(s_replSet, options) = {}) => t = Standalone

\* C2: the first matching token decides the lookup: when it is the flag
\* itself the result is the next token, or absent when the flag is the last
\* token; tokens that only begin with the flag (--ports=1 for --port) never
\* match; with no matching token the result is absent.
C2_FirstMatchDecides ==
    (opt_pc # "start") =>
        LET M == MatchIdx(option, options)
        IN  /\ M = {} => opt_result = None
            /\ (M # {} /\ options[Least(M)] = option) =>
                   opt_result = (IF Least(M) < Len(options)
                                 THEN Some(options[Least(M) + 1]) ELSE None)

\* The flag dangles behind a token that only begins with it: absent.
C2_Witness ==
    /\ opt_pc = "looked"
    /\ option = s_port
    /\ options = << Eq(s_port \o <<"s">>, s_one), s_port >>
    /\ opt_result = None

\* C3: when the first matching token is flag=V the result is V, everything
\* after the first '=', also for a V that holds '=' itself.
C3_ValueAfterFirstEq ==
    (opt_pc # "start") =>
        LET M == MatchIdx(option, options)
        IN  (M # {} /\ options[Least(M)] # option) =>
                opt_result = Some(AfterFirstEq(options[Least(M)], option))

\* C6 as stated: replica_set_name is present only in a ReplicaSet record, and
\* a ReplicaSet record carries the name --replSet gives.
C6_NameOnlyIfReplicaSet ==
    (opt_pc = "classified" /\ IsSome(info)) =>
        LET r == Unwrap(info)
        IN  /\ IsSome(r.replica_set_name) => r.server_type = ReplicaSet
            /\ r.server_type = ReplicaSet => IsSome(r.replica_set_name)

\* C6 as amended: replica_set_name is the value --replSet is given on the
\* command line, whatever the server_type: absent in every Standalone
\* record, present in every ReplicaSet record, and present in a Config or
\* Shard record as well when the command line gives --replSet a value.
C6_NameIsReplSetValue ==
    (opt_pc = "classified" /\ IsSome(info)) =>
        LET r == Unwrap(info)
            M == CodeMatchIdx(s_replSet, options)
        IN  /\ r.replica_set_name =
                   (IF M = {} THEN None ELSE ValueAt(s_replSet, options, Least(M)))
            /\ r.server_type = Standalone => r.replica_set_name = None
            /\ r.server_type = ReplicaSet => IsSome(r.replica_set_name)

\* A Config record that carries a replica set name.
C6_Witness ==
    /\ opt_pc = "classified"
    /\ IsSome(info)
    /\ Unwrap(info).server_type = Config
    /\ Unwrap(info).replica_set_name = Some(s_rs)

(***************************************************************************)
(* SpecArgs: get_path_info on the blocks the kernel builds for a launch    *)
(* (executable path, padding, arguments, environment) and on buffers of    *)
(* arbitrary bytes with an arbitrary reported size.                        *)
(***************************************************************************)
s_x == <<"x">>
s_b == <<"b">>
s_e == <<"e">>
Slash(dir, file) == dir \o <<"/">> \o file

ExePaths == { s_x, Slash(<< >>, s_x), Slash(s_b, s_x), Slash(Slash(<< >>, s_b), s_x) }
ArgTexts == { << >>, s_x, <<"-", "p">> }
EnvTexts == { s_e, s_PATH_EQ, s_PATH_EQ \o Slash(<< >>, s_b) }
\* The bytes of an arbitrary buffer: any byte in the argument count, and
\* valid UTF-8 behind it (get_unchecked_str decodes without validation, and
\* the behaviour of the String it makes of anything else is undefined).
CountBytes == { NUL, "^B", "M-^?" }
TextBytes == { NUL, "x", "/" }
RawBufs == { b \in [1..RawLen -> CountBytes \cup TextBytes] :
               /\ \A i \in 1..4 : b[i] \in CountBytes
               /\ \A i \in 5..RawLen : b[i] \in TextBytes }

Launches ==
    [exe : ExePaths, padding : 0..MaxPadding,
     argv : SeqsUpTo(ArgTexts, MaxArgc), env : SeqsUpTo(EnvTexts, MaxEnv)]

BlockOf(l) == KernelBlock(l.exe, l.padding, l.argv, l.env)

ArgsInit ==
    /\ OptIdle
    /\ MainIdle
    /\ \/ \E l \in Launches :
            /\ launch = Some(l)
            /\ sys = [ret |-> 0, buf |-> BlockOf(l), size |-> Len(BlockOf(l))]
       \/ /\ launch = None
          /\ sys \in [ret : {0 - 1, 0}, buf : RawBufs, size : 0..RawLen]
    /\ path_info = NoPathInfo("none", {})
    /\ args_pc = "start"

ParseBlock ==
    /\ args_pc = "start"
    /\ path_info' = get_path_info(sys)
    /\ args_pc' = "parsed"
    /\ UNCHANGED <<launch, sys, optVars, mainVars>>

ArgsNext == ParseBlock

SpecArgs == ArgsInit /\ [][ArgsNext]_vars

\* The text behind the last '/' of a path, and the text before it.
LastSlash(p) == Least({ i \in 0..Len(p) : \A j \in (i + 1)..Len(p) : p[j] # "/" })
FinalComponent(p) == SubSeq(p, LastSlash(p) + 1, Len(p))
Directory(p) == IF LastSlash(p) = 1 THEN <<"/">> ELSE SubSeq(p, 1, LastSlash(p) - 1)

\* C8: for every well-formed argument block (argc = n, the executable path,
\* any run of padding, n arguments, the environment strings) get_path_info
\* yields name = the final component of the executable path and cmd = exactly
\* the n arguments in launch order, no environment string among them.
C8_WellFormedBlockParsed ==
    (args_pc = "parsed" /\ IsSome(launch)) =>
        /\ path_info.outcome = "some"
        /\ path_info.name = FinalComponent(Unwrap(launch).exe)
        /\ path_info.cmd = Unwrap(launch).argv

\* C9: every byte get_path_info reads, and every byte range it hands to
\* get_unchecked_str, lies at an offset strictly below the reported size,
\* whatever the block holds and whatever size is reported.
C9_NoReadPastSize ==
    (args_pc = "parsed") =>
        /\ \A o \in path_info.reads : o < sys.size
        /\ \A r \in path_info.ranges : r[1] <= r[2] /\ r[2] <= sys.size

\* C10: root is the parent directory of an absolute executable path, and
\* otherwise the whole text after "PATH=" of the first environment string
\* that begins with PATH=, the empty text included; parsing completes.
C10_RootInference ==
    (args_pc = "parsed" /\ IsSome(launch)) =>
        LET l == Unwrap(launch)
            hits == { i \in 1..Len(l.env) : StartsWith(l.env[i], s_PATH_EQ) }
        IN  /\ is_absolute(l.exe) =>
                   path_info.outcome = "some" /\ path_info.root = Directory(l.exe)
            /\ (~is_absolute(l.exe) /\ hits # {}) =>
                   /\ path_info.outcome = "some"
                   /\ path_info.root = SubSeq(l.env[Least(hits)], 6, Len(l.env[Least(hits)]))

(***************************************************************************)
(* get_procs: linux.rs and macos.rs.                                       *)
(*                                                                         *)
(* An entry of the process table of the operating system is                *)
(*   [pid, exe, argv, env, access]                                         *)
(* with access "ok", "denied" (the arguments cannot be read) or "gone"     *)
(* (the process exited while the table was being read).                    *)
(***************************************************************************)
\* prc.stat.comm: the kernel's name of the process, the file name of its
\* executable.
Comm(entry) == LET f == file_name(entry.exe) IN IF IsSome(f) THEN Unwrap(f) ELSE << >>

\* procfs::process::all_processes()? leaves out the processes that are gone;
\* prc.cmdline().unwrap_or_default() is empty when the arguments are denied.
RECURSIVE LinuxProcs(_)
LinuxProcs(table) ==
    IF table = << >> THEN << >>
    ELSE LET e == Head(table)
         IN  (IF e.access = "gone" THEN << >>
              ELSE << [pid |-> e.pid, program |-> Comm(e),
                       cmdline |-> IF e.access = "ok" THEN e.argv ELSE << >>] >>)
             \o LinuxProcs(Tail(table))

linux_get_procs(o) ==
    IF ~o.list_ok THEN [outcome |-> "err", procs |-> << >>]
    ELSE [outcome |-> "ok", procs |-> LinuxProcs(o.table)]

\* libc::sysctl(KERN_PROCARGS2, pid): -1 unless the arguments can be read.
Sysctl(entry) ==
    IF entry.access = "ok"
    THEN LET block == KernelBlock(entry.exe, 1, entry.argv, entry.env)
         IN  [ret |-> 0, buf |-> block, size |-> Len(block)]
    ELSE [ret |-> 0 - 1, buf |-> << >>, size |-> 0]

\* for p in pids { if let Some(pi) = get_path_info(p, arg_max) { procs.push } }
RECURSIVE MacosProcs(_)
MacosProcs(table) ==
    IF table = << >> THEN [outcome |-> "ok", procs |-> << >>]
    ELSE LET e    == Head(table)
             pi   == get_path_info(Sysctl(e))
             rest == MacosProcs(Tail(table))
         IN  IF pi.outcome = "panic" \/ rest.outcome = "panic"
             THEN [outcome |-> "panic", procs |-> << >>]
             ELSE [outcome |-> "ok",
                   procs |-> (IF pi.outcome = "some"
                              THEN << [pid |-> e.pid, program |-> pi.name,
                                       cmdline |-> pi.cmd] >>
                              ELSE << >>) \o rest.procs]

\* if let Ok(pids) = proc_pid::listpids(..) { ... }  Ok(procs)
macos_get_procs(o) ==
    IF ~o.list_ok THEN [outcome |-> "ok", procs |-> << >>]
    ELSE MacosProcs(o.table)

get_procs(plat, o) ==
    IF plat = "linux" THEN linux_get_procs(o) ELSE macos_get_procs(o)

(***************************************************************************)
(* main                                                                    *)
(***************************************************************************)
PidsOf(infos) == [i \in 1..Len(infos) |-> infos[i].pid]

\* A faulty FilterPids: the server-type filter is honored before the
\* port filter.
FilterPidsTypeFirst(a, mongod, mongos, shell) ==
    IF IsSome(a.server_type)
    THEN [has_pids |-> TRUE,
          pids |-> PidsOf(SelectSeq(mongod, LAMBDA d : d.server_type = Unwrap(a.server_type)))]
    ELSE IF IsSome(a.port)
    THEN [has_pids |-> TRUE,
          pids |-> PidsOf(SelectSeq(mongod, LAMBDA d : d.port = Unwrap(a.port)))
                   \o PidsOf(SelectSeq(mongos, LAMBDA d : d.port = Unwrap(a.port)))]
    ELSE IF IsSome(a.process_type)
    THEN [has_pids |-> TRUE,
          pids |-> CASE Unwrap(a.process_type) = Legacyshell -> shell
                     [] Unwrap(a.process_type) = Mongod -> PidsOf(mongod)
                     [] Unwrap(a.process_type) = Mongos -> PidsOf(mongos)]
    ELSE [has_pids |-> FALSE, pids |-> << >>]

\* A faulty FilterPids: the port filter lists the routers before the
\* servers.
FilterPidsRoutersFirst(a, mongod, mongos, shell) ==
    IF IsSome(a.port)
    THEN [has_pids |-> TRUE,
          pids |-> PidsOf(SelectSeq(mongos, LAMBDA d : d.port = Unwrap(a.port)))
                   \o PidsOf(SelectSeq(mongod, LAMBDA d : d.port = Unwrap(a.port)))]
    ELSE IF IsSome(a.server_type)
    THEN [has_pids |-> TRUE,
          pids |-> PidsOf(SelectSeq(mongod, LAMBDA d : d.server_type = Unwrap(a.server_type)))]
    ELSE IF IsSome(a.process_type)
    THEN [has_pids |-> TRUE,
          pids |-> CASE Unwrap(a.process_type) = Legacyshell -> shell
                     [] Unwrap(a.process_type) = Mongod -> PidsOf(mongod)
                     [] Unwrap(a.process_type) = Mongos -> PidsOf(mongos)]
    ELSE [has_pids |-> FALSE, pids |-> << >>]

\* "Find servers by port": pids and has_pids.
FilterPids(a, mongod, mongos, shell) ==
    IF IsSome(a.port)
    THEN [has_pids |-> TRUE,
          pids |-> PidsOf(SelectSeq(mongod, LAMBDA d : d.port = Unwrap(a.port)))
                   \o PidsOf(SelectSeq(mongos, LAMBDA d : d.port = Unwrap(a.port)))]
    ELSE IF IsSome(a.server_type)
    THEN [has_pids |-> TRUE,
          pids |-> PidsOf(SelectSeq(mongod, LAMBDA d : d.server_type = Unwrap(a.server_type)))]
    ELSE IF IsSome(a.process_type)
    THEN [has_pids |-> TRUE,
          pids |-> CASE Unwrap(a.process_type) = Legacyshell -> shell
                     [] Unwrap(a.process_type) = Mongod -> PidsOf(mongod)
                     [] Unwrap(a.process_type) = Mongos -> PidsOf(mongos)]
    ELSE [has_pids |-> FALSE, pids |-> << >>]

Lines(kind, xs) == [i \in 1..Len(xs) |-> <<kind, xs[i]>>]

\* if *pt == MongoProcess::Legacyshell && args.port.is_some() { exit(1) }
CheckArgs ==
    /\ pc = "start"
    /\ IF args.process_type = Some(Legacyshell) /\ IsSome(args.port)
       THEN /\ stderr' = Append(stderr, <<"error", "Cannot use port with legacy shell">>)
            /\ exit_code' = Some(1)
            /\ pc' = "exited"
       ELSE /\ pc' = "get_procs"
            /\ UNCHANGED <<stderr, exit_code>>
    /\ UNCHANGED <<platform, args, os, procs, idx, shells, mongod_servers,
                   mongos_servers, pids, has_pids, stdout, optVars, argsVars>>

\* let procs = get_procs()?;
GetProcs ==
    /\ pc = "get_procs"
    /\ LET got == get_procs(platform, os)
       IN  /\ procs' = got.procs
           /\ pc' = CASE got.outcome = "ok" -> "classify"
                      [] got.outcome = "err" -> "failed"
                      [] got.outcome = "panic" -> "panicked"
           /\ exit_code' = CASE got.outcome = "ok" -> None
                             [] got.outcome = "err" -> Some(1)
                             [] got.outcome = "panic" -> Some(101)
    /\ UNCHANGED <<platform, args, os, idx, shells, mongod_servers, mongos_servers,
                   pids, has_pids, stdout, stderr, optVars, argsVars>>

\* One turn of "for p in procs".
ClassifyStep ==
    /\ pc = "classify"
    /\ idx <= Len(procs)
    /\ LET p    == procs[idx]
           mp   == is_mongo_process(p)
           role == IF IsSome(mp.role) THEN Unwrap(mp.role) ELSE "none"
           d    == IF role = Mongod THEN get_mongod_info(p) ELSE None
           s    == IF role = Mongos THEN get_mongos_info(p) ELSE None
           bad  == (role = Mongod /\ ~IsSome(d)) \/ (role = Mongos /\ ~IsSome(s))
       IN  /\ stderr' = IF mp.warned THEN Append(stderr, <<"unexpected", p.pid>>) ELSE stderr
           /\ stdout' = IF IsSome(mp.role) /\ args.verbose
                        THEN Append(stdout, <<"diag", p.pid>>) ELSE stdout
           /\ shells' = IF role = Legacyshell THEN Append(shells, p.pid) ELSE shells
           /\ mongod_servers' = IF role = Mongod /\ ~bad
                                THEN Append(mongod_servers, Unwrap(d)) ELSE mongod_servers
           /\ mongos_servers' = IF role = Mongos /\ ~bad
                                THEN Append(mongos_servers, Unwrap(s)) ELSE mongos_servers
           /\ pc' = IF bad THEN "panicked" ELSE "classify"
           /\ exit_code' = IF bad THEN Some(101) ELSE exit_code
    /\ idx' = idx + 1
    /\ UNCHANGED <<platform, args, os, procs, pids, has_pids, optVars, argsVars>>

\* "Dump Process Info", behind the loop.
DumpInfo ==
    /\ pc = "classify"
    /\ idx > Len(procs)
    /\ stdout' = IF args.verbose
                 THEN stdout \o Lines("diag", shells) \o Lines("diag", PidsOf(mongod_servers))
                             \o Lines("diag", PidsOf(mongos_servers))
                 ELSE stdout
    /\ pc' = "filter"
    /\ UNCHANGED <<platform, args, os, procs, idx, shells, mongod_servers,
                   mongos_servers, pids, has_pids, stderr, exit_code, optVars, argsVars>>

Filter ==
    /\ pc = "filter"
    /\ LET f == FilterPids(args, mongod_servers, mongos_servers, shells)
       IN  pids' = f.pids /\ has_pids' = f.has_pids
    /\ pc' = "print"
    /\ UNCHANGED <<platform, args, os, procs, idx, shells, mongod_servers,
                   mongos_servers, stdout, stderr, exit_code, optVars, argsVars>>

\* if has_pids { println!("{}", pid) ... } else { println!(summary) }; Ok(())
PrintResult ==
    /\ pc = "print"
    /\ stdout' = IF has_pids
                 THEN stdout \o Lines("pid", pids)
                 ELSE Append(stdout, <<"summary", [shell |-> shells, mongod |-> mongod_servers,
                                                   mongos |-> mongos_servers]>>)
    /\ pc' = "done"
    /\ exit_code' = Some(0)
    /\ UNCHANGED <<platform, args, os, procs, idx, shells, mongod_servers,
                   mongos_servers, pids, has_pids, stderr, optVars, argsVars>>

\* The processes the table of the operating system is drawn from.
s_mongox == s_mongo \o s_x
Bin(name) == Slash(Slash(<< >>, s_b), name)

Entries ==
    { [pid |-> 7, exe |-> Bin(s_mongod), argv |-> <<s_mongod, s_port, s_one>>,
       env |-> <<s_e>>, access |-> "ok"],
      [pid |-> 3, exe |-> Bin(s_mongos), argv |-> <<s_mongos, Eq(s_port, s_one)>>,
       env |-> <<s_e>>, access |-> "ok"],
      [pid |-> 5, exe |-> Bin(s_mongo), argv |-> <<s_mongo>>,
       env |-> <<s_e>>, access |-> "ok"],
      [pid |-> 4, exe |-> Bin(s_mongod),
       argv |-> <<s_mongod, s_configsvr, Eq(s_replSet, s_rs)>>,
       env |-> <<s_e>>, access |-> "ok"],
      [pid |-> 8, exe |-> Bin(s_mongod), argv |-> <<s_mongod, s_shardsvr, s_one>>,
       env |-> <<s_e>>, access |-> "denied"],
      [pid |-> 2, exe |-> Bin(s_mongox), argv |-> <<s_mongox>>,
       env |-> <<s_e>>, access |-> "ok"],
      [pid |-> 9, exe |-> Bin(s_mongos), argv |-> <<s_mongos>>,
       env |-> <<s_e>>, access |-> "gone"],
      [pid |-> 6, exe |-> Bin(s_mongos), argv |-> <<s_mongos, s_port, s_x>>,
       env |-> <<s_e>>, access |-> "ok"],
      [pid |-> 1, exe |-> s_mongo, argv |-> <<s_mongo>>,
       env |-> <<s_PATH_EQ>>, access |-> "ok"] }

Tables ==
    { t \in SeqsUpTo(Entries, MaxProcs) :
        \A i, j \in 1..Len(t) : i # j => t[i] # t[j] }

OptionOf(S) == {None} \cup { Some(v) : v \in S }

Init ==
    /\ OptIdle
    /\ ArgsIdle
    /\ platform \in {"linux", "macos"}
    /\ args \in [process_type : OptionOf(MongoProcess), server_type : OptionOf(MongoDType),
                 port : OptionOf({1, DefaultPort}), verbose : BOOLEAN]
    /\ os \in [list_ok : BOOLEAN, table : Tables]
    /\ pc = "start"
    /\ procs = << >>
    /\ idx = 1
    /\ shells = << >>
    /\ mongod_servers = << >>
    /\ mongos_servers = << >>
    /\ pids = << >>
    /\ has_pids = TRUE
    /\ stdout = << >>
    /\ stderr = << >>
    /\ exit_code = None

Next == CheckArgs \/ GetProcs \/ ClassifyStep \/ DumpInfo \/ Filter \/ PrintResult

Spec == Init /\ [][Next]_vars

(***************************************************************************)
(* What the claims about an invocation speak of.                           *)
(***************************************************************************)
\* The pids printed, in the order of their lines.
Printed == LET ls == SelectSeq(stdout, LAMBDA l : l[1] = "pid")
           IN  [i \in 1..Len(ls) |-> ls[i][2]]

Range(seq) == { seq[i] : i \in 1..Len(seq) }
NoRepeat(seq) == \A i, j \in 1..Len(seq) : i # j => seq[i] # seq[j]

\* The position at which classification met the process, and its role.
Discovered(pid) == CHOOSE i \in 1..Len(procs) : procs[i].pid = pid
IsServerPid(pid) == pid \in Range(PidsOf(mongod_servers))
IsRouterPid(pid) == pid \in Range(PidsOf(mongos_servers))

\* C4 as stated: the printed pids keep the order in which the matching
\* processes were classified, whatever the filter: a matching process
\* classified before another is printed before it.
C4_DiscoveryOrder ==
    (pc = "done" /\ has_pids) =>
        \A i, j \in 1..Len(Printed) :
            i < j => Discovered(Printed[i]) < Discovered(Printed[j])

\* C4 as amended: the printed pids keep the order of classification within
\* each collection; under a port filter every matching server (mongod) is
\* printed before every matching router (mongos), whichever of the two was
\* classified first.
C4_OrderWithinCollection ==
    (pc = "done" /\ has_pids) =>
        \A i, j \in 1..Len(Printed) :
            i < j =>
                IF IsRouterPid(Printed[i]) = IsRouterPid(Printed[j])
                THEN Discovered(Printed[i]) < Discovered(Printed[j])
                ELSE IsServerPid(Printed[i]) /\ IsRouterPid(Printed[j])

\* A port filter matched a router classified before a server: the server is
\* printed first.
C4_Witness ==
    /\ pc = "done"
    /\ IsSome(args.port)
    /\ Len(Printed) = 2
    /\ IsServerPid(Printed[1]) /\ IsRouterPid(Printed[2])
    /\ Discovered(Printed[2]) < Discovered(Printed[1])

\* C5: one filter is honored, by the precedence port > server-type > role >
\* none.  With a port the result is exactly the pids of the servers and
\* routers on that port, whatever else is given; otherwise with a server
\* type it is exactly the pids of the mongod records of that type, never a
\* router or shell pid; otherwise with a role it is that role's whole
\* collection; with no filter has_pids is false and the summary is printed
\* instead of a pid list.
C5_OneFilterByPrecedence ==
    (pc \in {"print", "done"}) =>
        /\ IsSome(args.port) =>
               /\ has_pids /\ NoRepeat(pids)
               /\ Range(pids) = { r.pid : r \in { x \in Range(mongod_servers) \cup Range(mongos_servers) :
                                                   x.port = Unwrap(args.port) } }
        /\ (~IsSome(args.port) /\ IsSome(args.server_type)) =>
               /\ has_pids /\ NoRepeat(pids)
               /\ Range(pids) = { d.pid : d \in { x \in Range(mongod_servers) :
                                                   x.server_type = Unwrap(args.server_type) } }
               /\ \A q \in Range(pids) : ~IsRouterPid(q) /\ q \notin Range(shells)
        /\ (~IsSome(args.port) /\ ~IsSome(args.server_type) /\ IsSome(args.process_type)) =>
               /\ has_pids
               /\ pids = (CASE Unwrap(args.process_type) = Legacyshell -> shells
                            [] Unwrap(args.process_type) = Mongod -> PidsOf(mongod_servers)
                            [] Unwrap(args.process_type) = Mongos -> PidsOf(mongos_servers))
        /\ (~IsSome(args.port) /\ ~IsSome(args.server_type) /\ ~IsSome(args.process_type)) =>
               ~has_pids
        /\ pc = "done" =>
               IF has_pids
               THEN Printed = pids /\ \A k \in 1..Len(stdout) : stdout[k][1] # "summary"
               ELSE Printed = << >> /\ stdout[Len(stdout)][1] = "summary"

\* A port, a server type and a role are all given, and the port decides: a
\* router is printed although the type and the role ask for servers.
C5_Witness ==
    /\ pc = "done"
    /\ IsSome(args.port) /\ args.server_type = Some(Config) /\ args.process_type = Some(Mongod)
    /\ \E q \in Range(Printed) : IsRouterPid(q)
    /\ \E q \in Range(Printed) : IsServerPid(q)

\* C7: on both platforms a failure of the query that lists the processes
\* surfaces from get_procs as an error: the invocation ends with a non-zero
\* status and prints neither a pid list nor a summary; a failure about one
\* process (arguments denied, process gone) only skips or empties that one
\* record and never fails the operation.
C7_EnumerationFailureIsFatal ==
    /\ (~os.list_ok /\ pc \notin {"start", "get_procs", "exited"}) =>
           /\ pc = "failed"
           /\ IsSome(exit_code) /\ Unwrap(exit_code) # 0
           /\ stdout = << >>
    /\ (os.list_ok /\ pc \notin {"start", "get_procs", "exited"}) =>
           /\ pc # "failed"
           /\ \A k \in 1..Len(os.table) :
                  os.table[k].access # "ok" =>
                      \A n \in 1..Len(procs) :
                          procs[n].pid = os.table[k].pid => procs[n].cmdline = << >>

====
